---- MODULE Spec2Model ----
(***************************************************************************)
(* Model of the myless pager (src/src/main.rs, src/src/ui.rs): process     *)
(* start-up, terminal acquisition and release, the render / poll loop and  *)
(* the key handling state machine.                                         *)
(*                                                                         *)
(* Strings are sequences of one-character strings; a few fixed texts that  *)
(* the program only ever copies as a whole (a log label, the Debug text of *)
(* an io::Error) are kept as a single token.  NL is the newline byte.      *)
(***************************************************************************)
EXTENDS Integers, Sequences, FiniteSets, TLC

VARIABLES
    argv,       \* command line arguments after the program name
    pc,         \* position of the process: "main", "new", "setup", "render", "poll", "drop", "exited"
    result,     \* how App::run ended: "none", "ok", "err", "panic"
    exitcode,   \* process exit status, -1 while running
    height,     \* chunks[1].height: rows of the file content frame
    raw,        \* terminal: raw mode enabled
    alt,        \* terminal: alternate screen entered
    acquires,   \* number of successful enable_raw_mode calls
    releases,   \* number of teardown_terminal calls
    filename,   \* App.filename
    tmpbuf,     \* App.tmpbuf
    content,    \* App.content
    search,     \* App.search
    lines,      \* App.lines
    log,        \* App.log
    cur,        \* App.cur
    state,      \* App.state
    event,      \* what the last pass of handle_event's loop read, NoEvent when it read nothing
    req,        \* *cur_pos on entry to the last main_ui call
    nevents     \* number of events read so far

app == <<filename, tmpbuf, content, search, lines, log, cur, state>>
term == <<raw, alt, acquires, releases>>
vars == <<argv, pc, result, exitcode, height, raw, alt, acquires, releases,
          filename, tmpbuf, content, search, lines, log, cur, state,
          event, req, nevents>>

----------------------------------------------------------------------------
(* Bounds of the model *)

\* events (keys, resizes, others) delivered to one run of the program
MaxEvents == 5

\* heights the file content frame can have
Heights == {0, 1, 2}

\* characters the keyboard delivers as KeyCode::Char
Chars == {"q", "o", "s"}

NL == "\n"

Min(a, b) == IF a <= b THEN a ELSE b
Max(a, b) == IF a >= b THEN a ELSE b

----------------------------------------------------------------------------
(* The file system the program reads *)

NotFound == "Os { code: 2, kind: NotFound, message: \"No such file or directory\" }"

ReadableFiles == {<<"o">>, <<"s">>, <<"q">>, <<"o", "o">>}

FileText(name) ==
    CASE name = <<"o">>      -> <<"x", NL, "x", NL, "x", NL>>
      [] name = <<"s">>      -> <<"x", NL, "x", NL, "x">>
      [] name = <<"q">>      -> <<>>
      [] name = <<"o", "o">> -> <<"x", NL, NL, "x", NL, "x", NL>>
      [] OTHER               -> <<>>

\* fs::read_to_string: Ok(text) or Err(e)
read_to_string(name) ==
    IF name \in ReadableFiles
    THEN [ok |-> TRUE, txt |-> FileText(name), err |-> ""]
    ELSE [ok |-> FALSE, txt |-> <<>>, err |-> NotFound]

\* command lines the program is started with
Argvs == {<<>>, <<<<"o">>>>, <<<<"s">>>>, <<<<"o", "o">>>>, <<<<"q", "q">>>>}

----------------------------------------------------------------------------
(* Pure functions of ui.rs *)

\* count_newlines counting an unterminated last line too
count_newlines_with_last(s) ==
    Cardinality({i \in DOMAIN s : s[i] = NL})
        + (IF s # <<>> /\ s[Len(s)] # NL THEN 1 ELSE 0)

\* count_newlines
count_newlines(s) == Cardinality({i \in DOMAIN s : s[i] = NL})

\* str::lines as used by main_ui: the text split at newlines, the empty
\* piece after a final newline dropped
RECURSIVE SplitLines(_, _, _)
SplitLines(s, i, acc) ==
    IF i > Len(s)
    THEN IF acc = <<>> THEN <<>> ELSE <<acc>>
    ELSE IF s[i] = NL
         THEN <<acc>> \o SplitLines(s, i + 1, <<>>)
         ELSE SplitLines(s, i + 1, Append(acc, s[i]))

str_lines(s) == SplitLines(s, 1, <<>>)

prompt_string(s) ==
    CASE s = "Main"         -> <<>>
      [] s = "FilePrompt"   -> <<"ENTER FILENAME: ">>
      [] s = "SearchPrompt" -> <<"SEARCH STRING: ">>

\* Pop emptying the string
Pop_clears(s) == <<>>

\* String::pop
Pop(s) == IF s = <<>> THEN <<>> ELSE SubSeq(s, 1, Len(s) - 1)

\* String::push
Push(s, c) == Append(s, c)

\* format!("ERROR: {:?}", e)
ErrorText(e) == <<"E", "R", "R", "O", "R", ":", " ", e>>

----------------------------------------------------------------------------
(* Key codes and events *)

Key(code, ch) == [code |-> code, ch |-> ch]
CharKey(c) == Key("Char", c)
Esc == Key("Esc", "")
Enter == Key("Enter", "")
Backspace == Key("Backspace", "")
Up == Key("Up", "")
Down == Key("Down", "")
Left == Key("Left", "")

Keys == {CharKey(c) : c \in Chars} \cup {Esc, Enter, Backspace, Up, Down, Left}

\* format!("{:?}", key.code)
KeyDebug(k) == IF k.code = "Char" THEN <<"Char('", k.ch, "')">> ELSE <<k.code>>

\* An event as handle_event sees it, with what it was dispatched on: the
\* UiState (on), tmpbuf (buf) and cur (at) of the App when it was read.
NoKey == Key("", "")
NoEvent == [kind |-> "None", key |-> NoKey, h |-> 0, on |-> "", buf |-> <<>>, at |-> 0]
KeyEv(k, on, buf, at) == [kind |-> "Key", key |-> k, h |-> 0, on |-> on, buf |-> buf, at |-> at]
ResizeEv(h, on, buf, at) == [kind |-> "Resize", key |-> NoKey, h |-> h, on |-> on, buf |-> buf, at |-> at]
OtherEv(on, buf, at) == [kind |-> "Other", key |-> NoKey, h |-> 0, on |-> on, buf |-> buf, at |-> at]

----------------------------------------------------------------------------
(* Start-up *)

Init ==
    /\ argv \in Argvs
    /\ height \in Heights
    /\ pc = "main"
    /\ result = "none"
    /\ exitcode = -1
    /\ raw = FALSE
    /\ alt = FALSE
    /\ acquires = 0
    /\ releases = 0
    /\ filename = <<>>
    /\ tmpbuf = <<>>
    /\ content = <<>>
    /\ search = <<>>
    /\ lines = 0
    /\ log = <<>>
    /\ cur = 0
    /\ state = "Main"
    /\ event = NoEvent
    /\ req = 0
    /\ nevents = 0

\* main.rs parse_args and its use in main
parse_args ==
    /\ pc = "main"
    /\ IF Len(argv) < 1
       THEN /\ pc' = "exited"
            /\ exitcode' = 1
            /\ UNCHANGED filename
       ELSE /\ pc' = "new"
            /\ filename' = argv[1]
            /\ UNCHANGED exitcode
    /\ UNCHANGED <<argv, result, height, term, tmpbuf, content, search, lines,
                   log, cur, state, event, req, nevents>>

\* AppNewRead with the terminal set up before the file is read
AppNewRead_after_setup ==
    /\ pc = "new"
    /\ raw' = TRUE
    /\ alt' = TRUE
    /\ acquires' = acquires + 1
    /\ LET r == read_to_string(filename) IN
       IF r.ok
       THEN /\ content' = r.txt
            /\ lines' = count_newlines(r.txt)
            /\ pc' = "setup"
            /\ UNCHANGED exitcode
       ELSE /\ pc' = "exited"
            /\ exitcode' = 1
            /\ UNCHANGED <<content, lines>>
    /\ UNCHANGED <<argv, result, height, releases, filename, tmpbuf, search,
                   log, cur, state, event, req, nevents>>

\* App::new up to the call of setup_terminal: the initial read
AppNewRead ==
    /\ pc = "new"
    /\ LET r == read_to_string(filename) IN
       IF r.ok
       THEN /\ content' = r.txt
            /\ lines' = count_newlines(r.txt)
            /\ pc' = "setup"
            /\ UNCHANGED exitcode
       ELSE /\ pc' = "exited"
            /\ exitcode' = 1
            /\ UNCHANGED <<content, lines>>
    /\ UNCHANGED <<argv, result, height, term, filename, tmpbuf, search,
                   log, cur, state, event, req, nevents>>

\* how far setup_terminal gets: it fails at enable_raw_mode, at
\* EnterAlternateScreen, at Terminal::new, or not at all
SetupOutcomes == {"raw_err", "alt_err", "new_err", "ok"}

\* App::setup_terminal and the construction of App that follows it
setup_terminal(o) ==
    /\ pc = "setup"
    /\ raw' = (o # "raw_err")
    /\ acquires' = IF o # "raw_err" THEN acquires + 1 ELSE acquires
    /\ alt' = (o \in {"new_err", "ok"})
    /\ IF o = "ok"
       THEN /\ pc' = "render"
            /\ tmpbuf' = <<>>
            /\ search' = <<>>
            /\ log' = <<"<log text goes here>">>
            /\ cur' = 0
            /\ state' = "Main"
            /\ UNCHANGED exitcode
       ELSE /\ pc' = "exited"
            /\ exitcode' = 1
            /\ UNCHANGED <<tmpbuf, search, log, cur, state>>
    /\ UNCHANGED <<argv, result, height, releases, filename, content, lines,
                   event, req, nevents>>

----------------------------------------------------------------------------
(* Rendering *)

\* max_pos without the two rows of the frame's border
max_pos_no_border(nlines, h, cur_pos) ==
    IF nlines <= h
    THEN 0
    ELSE Min(nlines - h, cur_pos)

\* max_pos with < for <=
max_pos_strict(nlines, h, cur_pos) ==
    IF nlines < h
    THEN 0
    ELSE Min(nlines - h + 2, cur_pos)

\* max_pos without the min with cur_pos
max_pos_no_min(nlines, h, cur_pos) ==
    IF nlines <= h
    THEN 0
    ELSE nlines - h + 2

\* main_ui: the position the frame is drawn from
max_pos(nlines, h, cur_pos) ==
    IF nlines <= h
    THEN 0
    ELSE Min(nlines - h + 2, cur_pos)

\* main_ui: &v[max_pos..] is in range
slice_ok(txt, pos) == pos <= Len(str_lines(txt))

\* Terminal::draw fails before it calls the closure (autoresize), after it
\* (flush), or not at all
DrawOutcomes == {"err_before", "err_after", "ok"}

\* App::render_ui: "ok", "err" (draw returned Err) or "panic" (slice out of range)
render_result(o, h) ==
    IF o = "err_before" THEN "err"
    ELSE IF ~slice_ok(content, max_pos(lines, h, cur)) THEN "panic"
    ELSE IF o = "err_after" THEN "err"
    ELSE "ok"

\* render_cur without the write back of the clamped offset
render_cur_no_writeback(o, h) == cur

\* App::render_ui: what main_ui writes back through cur_pos
render_cur(o, h) ==
    IF o = "err_before" THEN cur ELSE max_pos(lines, h, cur)

\* the offset main_ui was asked for
render_req(o) == IF o = "err_before" THEN req ELSE cur

\* App::run, first statement of the loop
Render(o) ==
    /\ pc = "render"
    /\ cur' = render_cur(o, height)
    /\ req' = render_req(o)
    /\ event' = NoEvent
    /\ LET r == render_result(o, height) IN
       IF r = "ok"
       THEN pc' = "poll" /\ UNCHANGED result
       ELSE pc' = "drop" /\ result' = r
    /\ UNCHANGED <<argv, exitcode, height, term, filename, tmpbuf, content,
                   search, lines, log, state, nevents>>

----------------------------------------------------------------------------
(* Key handling *)

\* is_quit_key without the Esc alternative
is_quit_key_only_q(key) == key = CharKey("q")

\* handle_main_key_event, first arm: KeyCode::Char('q') | KeyCode::Esc
is_quit_key(key) == key = CharKey("q") \/ key = Esc

\* handle_main_key_event, KeyCode::Down arm: self.cur += 1
scroll_down(c) == c + 1

\* scroll_up without its guard
scroll_up_unguarded(c) == c - 1

\* handle_main_key_event, KeyCode::Up arm: if self.cur > 0 { self.cur -= 1 }
scroll_up(c) == IF c > 0 THEN c - 1 ELSE c

\* enter_prompt also dropping the search term
enter_prompt_clears_search(s, quit) ==
    /\ quit = FALSE
    /\ state' = s
    /\ log' = prompt_string(s)
    /\ search' = <<>>
    /\ UNCHANGED <<filename, tmpbuf, content, lines, cur>>

\* handle_main_key_event, the Char('o') and Char('s') arms: s is the prompt
enter_prompt(s, quit) ==
    /\ quit = FALSE
    /\ state' = s
    /\ log' = prompt_string(s)
    /\ UNCHANGED <<filename, tmpbuf, content, search, lines, cur>>

\* App::handle_main_key_event; quit is the returned flag
handle_main_key_event(key, quit) ==
    CASE is_quit_key(key) ->
            /\ quit = TRUE
            /\ UNCHANGED app
      [] key = CharKey("o") ->
            enter_prompt("FilePrompt", quit)
      [] key = CharKey("s") ->
            enter_prompt("SearchPrompt", quit)
      [] key = Down ->
            /\ quit = FALSE
            /\ cur' = scroll_down(cur)
            /\ log' = <<"Got KeyCode Down">>
            /\ UNCHANGED <<filename, tmpbuf, content, search, lines, state>>
      [] key = Up ->
            /\ quit = FALSE
            /\ cur' = scroll_up(cur)
            /\ log' = <<"Got KeyCode Up">>
            /\ UNCHANGED <<filename, tmpbuf, content, search, lines, state>>
      [] OTHER ->
            /\ quit = FALSE
            /\ log' = <<"Got KeyCode ">> \o KeyDebug(key)
            /\ UNCHANGED <<filename, tmpbuf, content, search, lines, cur, state>>

\* input_esc cancelling the prompt instead of quitting
input_esc_cancels(quit) ==
    /\ quit = FALSE
    /\ tmpbuf' = <<>>
    /\ state' = "Main"
    /\ UNCHANGED <<filename, content, search, lines, log, cur>>

\* handle_input_key_event, KeyCode::Esc arm
input_esc(quit) ==
    /\ quit = TRUE
    /\ UNCHANGED app

\* open_file without the reset of cur
open_file_keeps_cur(quit) ==
    /\ quit = FALSE
    /\ filename' = tmpbuf
    /\ log' = <<"Got: ">> \o tmpbuf
    /\ tmpbuf' = <<>>
    /\ LET r == read_to_string(tmpbuf)
           txt == IF r.ok THEN r.txt ELSE ErrorText(r.err)
       IN /\ lines' = count_newlines(txt)
          /\ content' = txt
    /\ state' = "Main"
    /\ UNCHANGED <<search, cur>>

\* open_file counting the lines of a text it read only
open_file_stale_lines(quit) ==
    /\ quit = FALSE
    /\ filename' = tmpbuf
    /\ log' = <<"Got: ">> \o tmpbuf
    /\ tmpbuf' = <<>>
    /\ cur' = 0
    /\ LET r == read_to_string(tmpbuf)
       IN IF r.ok
          THEN lines' = count_newlines(r.txt) /\ content' = r.txt
          ELSE UNCHANGED lines /\ content' = ErrorText(r.err)
    /\ state' = "Main"
    /\ UNCHANGED search

\* handle_input_key_event, KeyCode::Enter arm of the FilePrompt state
open_file(quit) ==
    /\ quit = FALSE
    /\ filename' = tmpbuf
    /\ log' = <<"Got: ">> \o tmpbuf
    /\ tmpbuf' = <<>>
    /\ cur' = 0
    /\ LET r == read_to_string(tmpbuf)
           txt == IF r.ok THEN r.txt ELSE ErrorText(r.err)
       IN /\ lines' = count_newlines(txt)
          /\ content' = txt
    /\ state' = "Main"
    /\ UNCHANGED search

\* commit_search without tmpbuf.clear()
commit_search_keeps_buf(quit) ==
    /\ quit = FALSE
    /\ search' = tmpbuf
    /\ log' = <<"Got: ">> \o tmpbuf
    /\ state' = "Main"
    /\ UNCHANGED <<filename, tmpbuf, content, lines, cur>>

\* commit_search resetting cur as open_file does
commit_search_resets_cur(quit) ==
    /\ quit = FALSE
    /\ search' = tmpbuf
    /\ log' = <<"Got: ">> \o tmpbuf
    /\ tmpbuf' = <<>>
    /\ cur' = 0
    /\ state' = "Main"
    /\ UNCHANGED <<filename, content, lines>>

\* commit_search storing the buffer in filename as open_file does
commit_search_sets_filename(quit) ==
    /\ quit = FALSE
    /\ filename' = tmpbuf
    /\ search' = tmpbuf
    /\ log' = <<"Got: ">> \o tmpbuf
    /\ tmpbuf' = <<>>
    /\ state' = "Main"
    /\ UNCHANGED <<content, lines, cur>>

\* handle_input_key_event, KeyCode::Enter arm of the SearchPrompt state
commit_search(quit) ==
    /\ quit = FALSE
    /\ search' = tmpbuf
    /\ log' = <<"Got: ">> \o tmpbuf
    /\ tmpbuf' = <<>>
    /\ state' = "Main"
    /\ UNCHANGED <<filename, content, lines, cur>>

\* App::handle_input_key_event; quit is the returned flag
handle_input_key_event(key, quit) ==
    CASE key = Esc ->
            input_esc(quit)
      [] key = Enter /\ state = "FilePrompt" ->
            open_file(quit)
      [] key = Enter /\ state = "SearchPrompt" ->
            commit_search(quit)
      [] key = Backspace ->
            /\ quit = FALSE
            /\ tmpbuf' = Pop(tmpbuf)
            /\ log' = prompt_string(state) \o <<":", " ">> \o Pop(tmpbuf)
            /\ UNCHANGED <<filename, content, search, lines, cur, state>>
      [] key.code = "Char" ->
            /\ quit = FALSE
            /\ tmpbuf' = Push(tmpbuf, key.ch)
            /\ log' = prompt_string(state) \o <<" ">> \o Push(tmpbuf, key.ch)
            /\ UNCHANGED <<filename, content, search, lines, cur, state>>
      [] OTHER ->
            /\ quit = FALSE
            /\ UNCHANGED app

\* handle_key_event without the match on state
handle_key_event_always_main(key, quit) ==
    handle_main_key_event(key, quit)

\* App::handle_key_event
handle_key_event(key, quit) ==
    CASE state = "FilePrompt"   -> handle_input_key_event(key, quit)
      [] state = "SearchPrompt" -> handle_input_key_event(key, quit)
      [] state = "Main"         -> handle_main_key_event(key, quit)

----------------------------------------------------------------------------
(* App::handle_event: one pass of its while loop per action *)

\* poll returns false: handle_event returns Ok(false), run loops
PollEmpty ==
    /\ pc = "poll"
    /\ pc' = "render"
    /\ event' = NoEvent
    /\ UNCHANGED <<argv, result, exitcode, height, term, app, req, nevents>>

\* poll or read returns Err: handle_event and run return it
PollError ==
    /\ pc = "poll"
    /\ pc' = "drop"
    /\ result' = "err"
    /\ event' = NoEvent
    /\ UNCHANGED <<argv, exitcode, height, term, app, req, nevents>>

\* read returns Event::Key(key)
KeyEvent(key) ==
    /\ pc = "poll"
    /\ nevents < MaxEvents
    /\ nevents' = nevents + 1
    /\ event' = KeyEv(key, state, tmpbuf, cur)
    /\ \E quit \in BOOLEAN :
          /\ handle_key_event(key, quit)
          /\ IF quit
             THEN pc' = "drop" /\ result' = "ok"
             ELSE pc' = "poll" /\ UNCHANGED result
    /\ UNCHANGED <<argv, exitcode, height, term, req>>

\* ResizeEvent without the call of render_ui
ResizeEvent_no_render(h, o) ==
    /\ pc = "poll"
    /\ nevents < MaxEvents
    /\ nevents' = nevents + 1
    /\ event' = ResizeEv(h, state, tmpbuf, cur)
    /\ height' = h
    /\ UNCHANGED <<argv, pc, result, exitcode, term, app, req>>

\* read returns Event::Resize: the frame has height h from now on
ResizeEvent(h, o) ==
    /\ pc = "poll"
    /\ nevents < MaxEvents
    /\ nevents' = nevents + 1
    /\ event' = ResizeEv(h, state, tmpbuf, cur)
    /\ height' = h
    /\ cur' = render_cur(o, h)
    /\ req' = render_req(o)
    /\ LET r == render_result(o, h) IN
       IF r = "ok"
       THEN pc' = "poll" /\ UNCHANGED result
       ELSE pc' = "drop" /\ result' = r
    /\ UNCHANGED <<argv, exitcode, term, filename, tmpbuf, content, search,
                   lines, log, state>>

\* read returns any other event
OtherEvent ==
    /\ pc = "poll"
    /\ nevents < MaxEvents
    /\ nevents' = nevents + 1
    /\ event' = OtherEv(state, tmpbuf, cur)
    /\ UNCHANGED <<argv, pc, result, exitcode, height, term, app, req>>

----------------------------------------------------------------------------
(* The end of App::run: self is dropped, then main ends the process *)

\* teardown_terminal fails at disable_raw_mode, at LeaveAlternateScreen, at
\* show_cursor, or not at all
TeardownOutcomes == {"raw_err", "leave_err", "cursor_err", "ok"}

\* App::teardown_terminal
teardown_terminal(o) ==
    /\ releases' = releases + 1
    /\ raw' = IF o = "raw_err" THEN raw ELSE FALSE
    /\ alt' = IF o \in {"raw_err", "leave_err"} THEN alt ELSE FALSE
    /\ UNCHANGED acquires

\* the status main leaves with
exit_status(r) ==
    CASE r = "ok"    -> 0
      [] r = "err"   -> 1
      [] r = "panic" -> 101

\* impl Drop for App, then the rest of main
Drop(o) ==
    /\ pc = "drop"
    /\ teardown_terminal(o)
    /\ pc' = "exited"
    /\ exitcode' = exit_status(result)
    /\ UNCHANGED <<argv, result, height, app, event, req, nevents>>

----------------------------------------------------------------------------

Next ==
    \/ parse_args
    \/ AppNewRead
    \/ \E o \in SetupOutcomes : setup_terminal(o)
    \/ \E o \in DrawOutcomes : Render(o)
    \/ PollEmpty
    \/ PollError
    \/ \E key \in Keys : KeyEvent(key)
    \/ \E h \in Heights, o \in DrawOutcomes : ResizeEvent(h, o)
    \/ OtherEvent
    \/ \E o \in TeardownOutcomes : Drop(o)

Spec == Init /\ [][Next]_vars

----------------------------------------------------------------------------
(* Properties *)

Prompts == {"FilePrompt", "SearchPrompt"}

\* the largest offset a frame of height h shows a text of n newlines from
MaxOffset(n, h) == Max(0, n - h + 2)

NewlinesIn(s) == Len(SelectSeq(s, LAMBDA c : c = NL))

\* a frame was drawn by the last step
JustRendered == pc = "poll" /\ event.kind \in {"None", "Resize"}

\* the last step handled key k, read while the App was in state on
JustHandled(k, on) == event.kind = "Key" /\ event.key = k /\ event.on = on

\* the process could not start: no filename argument, or an unreadable one
StartupFailed == Len(argv) < 1 \/ ~read_to_string(argv[1]).ok

\* C1: once raw mode has been enabled, the process never ends without the
\* terminal having been released exactly once: at exit teardown has run once
\* and neither raw mode nor the alternate screen is left on.
C1_ReleasedExactlyOnce ==
    (pc = "exited" /\ acquires > 0) => (releases = 1 /\ ~raw /\ ~alt)

\* C2: right after every drawn frame the stored offset is at most
\* max(0, lines - height + 2), and for a text longer than the frame it is
\* the smaller of the requested offset and lines - height + 2.
C2_OffsetClampedAfterRender ==
    JustRendered =>
        /\ cur <= MaxOffset(lines, height)
        /\ lines > height => cur = Min(req, lines - height + 2)

\* a frame was drawn that cut a request beyond the maximum down to it
C2_Witness ==
    /\ JustRendered
    /\ lines > height
    /\ req > lines - height + 2
    /\ cur = lines - height + 2

\* C3 as stated: for a text that fits the frame the stored offset is 0 in
\* every state of the session.
C3_OffsetAlwaysZero ==
    (pc \in {"render", "poll"} /\ lines <= height) => cur = 0

\* C3 amended: for a text that fits the frame the stored offset is 0 right
\* after every drawn frame.
C3_OffsetZeroAfterRender ==
    (JustRendered /\ lines <= height) => cur = 0

\* a frame of a text that fits was drawn after Down keys had raised the offset
C3_Witness ==
    /\ JustRendered
    /\ lines <= height
    /\ req > 0
    /\ cur = 0

\* C4: Enter in FilePrompt on a readable name makes that name the filename,
\* its text the content, counts the lines anew, resets the offset, empties
\* the buffer and returns to Main, without ending the loop.
C4_OpenReadableFile ==
    (JustHandled(Enter, "FilePrompt") /\ read_to_string(event.buf).ok) =>
        /\ pc = "poll"
        /\ filename = event.buf
        /\ content = read_to_string(event.buf).txt
        /\ lines = NewlinesIn(content)
        /\ cur = 0
        /\ tmpbuf = <<>>
        /\ state = "Main"

\* another file than the first was opened from a scrolled position
C4_Witness ==
    /\ JustHandled(Enter, "FilePrompt")
    /\ event.buf \in ReadableFiles
    /\ event.buf # argv[1]
    /\ event.at > 0
    /\ content = FileText(event.buf)
    /\ cur = 0

\* C5: Enter in FilePrompt on an unreadable name does not end the loop:
\* content is a placeholder holding the error, lines is counted from it, the
\* offset is 0, the state is Main, and no frame of that content can fail to
\* be sliced, whatever the height and the keys that come before it.
C5_OpenUnreadableFile ==
    /\ (JustHandled(Enter, "FilePrompt") /\ ~read_to_string(event.buf).ok) =>
          /\ pc = "poll"
          /\ result = "none"
          /\ filename = event.buf
          /\ \E i \in DOMAIN content : content[i] = read_to_string(event.buf).err
          /\ lines = NewlinesIn(content)
          /\ cur = 0
          /\ tmpbuf = <<>>
          /\ state = "Main"
    /\ (pc \in {"render", "poll"} /\ ~read_to_string(filename).ok) =>
          \A h \in Heights : slice_ok(content, max_pos(lines, h, cur))

\* the empty buffer was committed as a filename
C5_Witness ==
    /\ JustHandled(Enter, "FilePrompt")
    /\ event.buf = <<>>
    /\ pc = "poll"
    /\ state = "Main"
    /\ content = ErrorText(NotFound)

\* C6: without a filename argument, or with one that cannot be read, the
\* process exits with a non-zero status and the terminal was never touched;
\* the terminal is acquired only after the first read has succeeded.
C6_StartupFailureBeforeTerminal ==
    /\ (pc = "exited" /\ StartupFailed) =>
          /\ exitcode > 0
          /\ acquires = 0 /\ releases = 0
          /\ ~raw /\ ~alt
    /\ pc \in {"main", "new"} => (acquires = 0 /\ ~raw /\ ~alt)
    /\ acquires > 0 => ~StartupFailed

\* the process has exited on an unreadable first file
C6_Witness ==
    /\ pc = "exited"
    /\ Len(argv) = 1
    /\ ~read_to_string(argv[1]).ok
    /\ exitcode = 1

\* C7: q or Esc read in Main ends the loop in that step and leaves the App
\* as it was; from there the only step is the teardown: no event is read,
\* no frame is drawn and the App is not changed.
C7_QuitEndsLoop ==
    [][ /\ ( /\ pc = "poll"
             /\ state = "Main"
             /\ nevents' = nevents + 1
             /\ event'.kind = "Key"
             /\ event'.key \in {CharKey("q"), Esc} )
           => (pc' = "drop" /\ result' = "ok" /\ UNCHANGED <<app, height, req, term>>)
        /\ pc = "drop"
           => (pc' = "exited" /\ UNCHANGED <<app, height, req, event, nevents>>)
      ]_vars

\* the process has exited with status 0 on an Esc read in Main after other events
C7_Witness ==
    /\ pc = "exited"
    /\ JustHandled(Esc, "Main")
    /\ exitcode = 0
    /\ nevents >= 2

\* C8: Esc read in FilePrompt or SearchPrompt ends the loop and changes
\* nothing of the App: the state stays the prompt, no file is read, search
\* is not set.
C8_EscInPromptQuits ==
    [][ ( /\ pc = "poll"
          /\ state \in Prompts
          /\ nevents' = nevents + 1
          /\ event'.kind = "Key"
          /\ event'.key = Esc )
        => (pc' = "drop" /\ result' = "ok" /\ UNCHANGED app)
      ]_vars

\* Esc ended the loop from a search prompt holding text
C8_Witness ==
    /\ pc = "drop"
    /\ JustHandled(Esc, "SearchPrompt")
    /\ event.buf # <<>>
    /\ tmpbuf = event.buf
    /\ state = "SearchPrompt"

\* C9: in a prompt a character key appends that character to the buffer and
\* Backspace removes exactly the last one, so that Backspace undoes the key
\* before it and as many Backspaces as characters empty the buffer;
\* Backspace on the empty buffer leaves it empty; the state is unchanged.
C9_TypeBackspaceRoundTrip ==
    (event.kind = "Key" /\ event.on \in Prompts) =>
        /\ event.key.code = "Char" =>
              /\ tmpbuf = event.buf \o <<event.key.ch>>
              /\ SubSeq(tmpbuf, 1, Len(tmpbuf) - 1) = event.buf
              /\ state = event.on
        /\ event.key = Backspace =>
              /\ Len(tmpbuf) = Max(Len(event.buf) - 1, 0)
              /\ tmpbuf = SubSeq(event.buf, 1, Len(tmpbuf))
              /\ state = event.on

\* Backspace has removed the last of two typed characters but one
C9_Witness ==
    /\ event.kind = "Key"
    /\ event.key = Backspace
    /\ event.on = "SearchPrompt"
    /\ Len(event.buf) = 2
    /\ Len(tmpbuf) = 1
    /\ nevents >= 4

\* C10: Up in Main sets the offset to max(offset - 1, 0); the offset is
\* never negative.
C10_UpNeverBelowZero ==
    /\ cur >= 0
    /\ JustHandled(Up, "Main") => cur = Max(event.at - 1, 0)

\* Up was read at offset 0
C10_Witness ==
    /\ JustHandled(Up, "Main")
    /\ event.at = 0
    /\ cur = 0
    /\ pc = "poll"

\* C11: whenever the state is Main, tmpbuf is empty; so the o and s keys
\* enter their prompt on an empty buffer, and Enter leaves a prompt with the
\* buffer empty again.
C11_BufferEmptyInMain ==
    /\ state = "Main" => tmpbuf = <<>>
    /\ (JustHandled(CharKey("o"), "Main") \/ JustHandled(CharKey("s"), "Main")) =>
          (state \in Prompts /\ tmpbuf = <<>>)
    /\ (JustHandled(Enter, "FilePrompt") \/ JustHandled(Enter, "SearchPrompt")) =>
          (state = "Main" /\ tmpbuf = <<>>)

\* the file prompt was entered after a search prompt had held text
C11_Witness ==
    /\ JustHandled(CharKey("o"), "Main")
    /\ state = "FilePrompt"
    /\ search # <<>>
    /\ tmpbuf = <<>>

\* C12: no frame fails on its slice: App::run never ends in a panic, and
\* right after every drawn frame the offset is at most the number of lines
\* of the content, and 0 for a content without a newline.
C12_RenderNeverFails ==
    /\ result # "panic"
    /\ JustRendered =>
          /\ cur <= Len(str_lines(content))
          /\ lines = 0 => cur = 0

\* the step reads key k while the App is in state on
KeyStep(k, on) ==
    /\ pc = "poll"
    /\ state = on
    /\ nevents' = nevents + 1
    /\ event'.kind = "Key"
    /\ event'.key = k

\* C13 as stated: for a text longer than the frame, an Up that follows Down
\* keys past lines - height + 2 leaves lines - height + 1 for the next frame,
\* whether a frame was drawn since the Downs or the Up was queued behind them.
C13_UpAfterOvershootAnyDelivery ==
    [][ ( /\ KeyStep(Up, "Main")
          /\ lines > height
          /\ \/ JustRendered /\ req > lines - height + 2
             \/ JustHandled(Down, "Main") /\ cur > lines - height + 2 )
        => cur' = lines - height + 1
      ]_vars

\* C13 amended: for a text longer than the frame, an Up read right after a
\* frame that cut a request beyond lines - height + 2 leaves
\* lines - height + 1 for the next frame.
C13_UpAfterClampedFrame ==
    [][ ( /\ KeyStep(Up, "Main")
          /\ lines > height
          /\ JustRendered
          /\ req > lines - height + 2 )
        => cur' = lines - height + 1
      ]_vars

\* Up was read at the maximum a frame had cut the offset down to
C13_Witness ==
    /\ JustHandled(Up, "Main")
    /\ lines > height
    /\ req > lines - height + 2
    /\ event.at = lines - height + 2
    /\ cur = lines - height + 1

\* C14: in every state lines is the number of newlines of content, whether
\* the content was read at start-up, read by an open-file commit or is the
\* placeholder of a failed one; a last line without a newline is not counted.
C14_LinesCountNewlines ==
    lines = NewlinesIn(content)

\* a file whose last line has no newline was opened from the prompt
C14_Witness ==
    /\ JustHandled(Enter, "FilePrompt")
    /\ content # <<>>
    /\ content[Len(content)] # NL
    /\ lines > 0
    /\ lines < Len(str_lines(content))

\* C15: Enter in SearchPrompt copies the buffer to search, empties the
\* buffer and returns to Main; filename, content, lines and cur stay as they
\* are and the loop goes on.
C15_CommitSearch ==
    [][ KeyStep(Enter, "SearchPrompt") =>
           /\ search' = tmpbuf
           /\ tmpbuf' = <<>>
           /\ state' = "Main"
           /\ UNCHANGED <<filename, content, lines, cur>>
           /\ pc' = "poll"
           /\ UNCHANGED result
      ]_vars

\* a search text was committed from a scrolled position
C15_Witness ==
    /\ JustHandled(Enter, "SearchPrompt")
    /\ event.buf # <<>>
    /\ search = event.buf
    /\ state = "Main"
    /\ cur > 0

\* the content a read of name gives the App: the text, or the placeholder
ReadResult(name) ==
    IF name \in ReadableFiles THEN FileText(name) ELSE <<"E", "R", "R", "O", "R", ":", " ", NotFound>>

\* C16: once the App exists, filename, content and lines change in no step
\* but the handling of Enter in FilePrompt, and content is what the read of
\* filename gave.
C16_OnlyOpenFileLoads ==
    /\ [](pc \in {"render", "poll", "drop"} => content = ReadResult(filename))
    /\ [][ (pc \in {"render", "poll", "drop"} /\ ~KeyStep(Enter, "FilePrompt"))
           => UNCHANGED <<filename, content, lines>>
         ]_vars

\* a frame was drawn on a resize after another file than the first was opened
C16_Witness ==
    /\ JustRendered
    /\ event.kind = "Resize"
    /\ filename # argv[1]
    /\ filename \in ReadableFiles
    /\ content = FileText(filename)

\* the step draws a frame: the one of the loop, or the one of a resize
RenderStep ==
    \/ pc = "render" /\ pc' # "render"
    \/ pc = "poll" /\ nevents' = nevents + 1 /\ event'.kind = "Resize"

\* the offset a frame of height h stores for a text of n newlines asked at c
Clamp(n, h, c) == IF n <= h THEN 0 ELSE Min(n - h + 2, c)

\* C17: drawing a frame changes nothing of the App but cur, never raises
\* cur, and leaves a cur that a second frame of the same height keeps.
C17_RenderWritesOnlyOffset ==
    [][ RenderStep =>
           /\ UNCHANGED <<state, tmpbuf, search, log, filename, content, lines>>
           /\ cur' <= cur
           /\ pc' = "poll" => Clamp(lines', height', cur') = cur'
      ]_vars

\* a frame drawn in a prompt holding text lowered the offset
C17_Witness ==
    /\ JustRendered
    /\ event.kind = "None"
    /\ state \in Prompts
    /\ tmpbuf # <<>>
    /\ req > cur

\* C18: a resize draws a frame in the same step, from the offset the App had
\* when the event was read; it does not make handle_event return true and
\* leaves state and tmpbuf alone; the frame drawn, the offset is at most
\* max(0, lines - height + 2) for the new height, and 0 for a text that fits.
C18_ResizeRenders ==
    event.kind = "Resize" =>
        /\ height = event.h
        /\ state = event.on
        /\ tmpbuf = event.buf
        /\ result # "ok"
        /\ pc \in {"poll", "drop", "exited"}
        /\ pc = "poll" =>
              /\ result = "none"
              /\ req = event.at
              /\ cur = Clamp(lines, event.h, event.at)
              /\ cur <= MaxOffset(lines, event.h)
              /\ lines <= event.h => cur = 0

\* a resize to a height the text fits in brought the offset back to 0
C18_Witness ==
    /\ event.kind = "Resize"
    /\ pc = "poll"
    /\ event.at > 0
    /\ lines <= event.h
    /\ cur = 0

\* the step handles a key event
AnyKeyStep ==
    /\ pc = "poll"
    /\ nevents' = nevents + 1
    /\ event'.kind = "Key"

\* the keys handle_main_key_event has an arm of their own for
MainCommands == {CharKey("q"), Esc, CharKey("o"), CharKey("s"), Down, Up}

\* C19: in Main a key other than q, Esc, o, s, Down and Up changes log only
\* and does not end the loop; o and s change state and log only.
C19_MainOtherKeys ==
    [][ (AnyKeyStep /\ state = "Main") =>
           /\ event'.key \notin MainCommands =>
                 /\ UNCHANGED <<state, cur, tmpbuf, search, filename,
                                content, lines, result>>
                 /\ log' = <<"Got KeyCode ">> \o KeyDebug(event'.key)
                 /\ pc' = "poll"
           /\ event'.key \in {CharKey("o"), CharKey("s")} =>
                 /\ UNCHANGED <<cur, tmpbuf, search, filename,
                                content, lines, result>>
                 /\ state' \in Prompts
                 /\ pc' = "poll"
      ]_vars

\* Left was handled in Main at a positive offset with a search term set
C19_Witness ==
    /\ JustHandled(Left, "Main")
    /\ pc = "poll"
    /\ state = "Main"
    /\ cur = event.at
    /\ cur > 0
    /\ search # <<>>

\* C20: in a prompt a character key, q, o and s among them, is appended to
\* tmpbuf and neither ends the loop nor changes state; Up, Down and Left
\* change nothing; a key changes cur only as Enter in FilePrompt, to 0; the
\* prompt is left only by Enter, to Main, and the loop ends only by Esc.
C20_PromptCapturesKeys ==
    [][ /\ (AnyKeyStep /\ state \in Prompts) =>
              /\ event'.key.code = "Char" =>
                    /\ tmpbuf' = tmpbuf \o <<event'.key.ch>>
                    /\ UNCHANGED <<state, cur, result>>
                    /\ pc' = "poll"
              /\ event'.key \in {Up, Down, Left} =>
                    /\ UNCHANGED <<app, result>>
                    /\ pc' = "poll"
              /\ cur' # cur =>
                    /\ event'.key = Enter
                    /\ state = "FilePrompt"
                    /\ cur' = 0
              /\ pc' # "poll" =>
                    /\ event'.key = Esc
                    /\ pc' = "drop"
                    /\ result' = "ok"
        /\ (state \in Prompts /\ state' # state) =>
              /\ AnyKeyStep
              /\ event'.key = Enter
              /\ state' = "Main"
              /\ pc' = "poll"
      ]_vars

\* q was typed into the file prompt at a positive offset and only joined tmpbuf
C20_Witness ==
    /\ JustHandled(CharKey("q"), "FilePrompt")
    /\ pc = "poll"
    /\ state = "FilePrompt"
    /\ tmpbuf = event.buf \o <<"q">>
    /\ event.buf # <<>>
    /\ cur = event.at
    /\ cur > 0

====
